---- MODULE Spec2Model ----
(***************************************************************************)
(* SmartStudy AI: the generation / verification / correction pipeline of   *)
(* services/gemini.ts and the stage machine of App.tsx.                     *)
(*                                                                         *)
(* The service functions are async functions without shared state: each   *)
(* is an operator of its arguments and of the responses the provider       *)
(* gives to the calls it makes, and returns what the promise settles to    *)
(* together with the log of the provider calls it made.  The handlers of   *)
(* App share the React state; each is split at its await.                  *)
(***************************************************************************)
EXTENDS Integers, Sequences, FiniteSets, TLC

VARIABLES
    svc,        \* the service call last made in isolation: function, arguments, responses, outcome
    stage,      \* App: useState<AppStage>
    loading,    \* App: useState(false)
    errorMsg,   \* App: useState<React.ReactNode | null>
    problem,    \* App: useState<ProblemAnalysis | null>
    userSteps,  \* App: useState('')
    comparison, \* App: useState<ComparisonResult | null>
    practice,   \* App: useState<PracticeQuestion[]>([])
    favorites,  \* App: useState<FavoriteItem[]>([])
    inflight,   \* App: the handler calls suspended at their await, and whether reset ran since
    started,    \* number of handler calls started so far
    last        \* the handler call that settled last: handler, outcome of its service call

svcVars == <<svc>>
appVars == <<stage, loading, errorMsg, problem, userSteps, comparison, practice, favorites, inflight, started, last>>
vars == <<svc, stage, loading, errorMsg, problem, userSteps, comparison, practice, favorites, inflight, started, last>>

-----------------------------------------------------------------------------
(* JavaScript values.  A string slot holds a string, "undefined" when the  *)
(* property is missing; an object slot holds a record whose kind says      *)
(* whether it is null.                                                     *)

Undefined == "undefined"
Falsy(v) == v \in {Undefined, "", "false"}
Truthy(v) == ~Falsy(v)
NullObj == [kind |-> "null"]
IsNull(obj) == obj.kind = "null"

ImageData == {"imgA", "imgB"}
\* `data:image/png;base64,${data}`
DataUrl(data) == "data:image/png;base64," \o data
\* diagramBase64.split(',')[1] || diagramBase64
Base64Of(url) ==
    IF \E d \in ImageData : url = DataUrl(d)
    THEN CHOOSE d \in ImageData : url = DataUrl(d)
    ELSE url

-----------------------------------------------------------------------------
(* The provider: ai.models.generateContent either throws an error with a   *)
(* message, or answers with candidate parts (image calls) or text.         *)

Throw(message) == [kind |-> "throw", message |-> message]
Parts(parts) == [kind |-> "ok", parts |-> parts]
Text(text) == [kind |-> "ok", text |-> text]

\* error messages, as the sequence of their words
ErrorMessages ==
    { <<>>,
      <<"Requested entity was not found">>,
      <<"models/gemini-3-pro-preview", "404">>,
      <<"quota", "exceeded">>,
      <<"fetch", "failed">> }
\* err.message?.includes(word)
Includes(message, word) == \E i \in DOMAIN message : message[i] = word

\* response.text: missing or empty, not JSON, or the JSON text of a value
NoText == [syntax |-> "empty"]
Garbage == [syntax |-> "garbage"]
Json(value) == [syntax |-> "json", value |-> value]
SyntaxError == <<"Unexpected", "token">>
TypeError == <<"Cannot", "read", "properties">>
\* JSON.parse(response.text || fallback), fallback already parsed
JsonParse(text, fallback) ==
    CASE text.syntax = "empty" -> [threw |-> FALSE, value |-> fallback]
      [] text.syntax = "garbage" -> [threw |-> TRUE, value |-> fallback]
      [] OTHER -> [threw |-> FALSE, value |-> text.value]

TextPart == [inlineData |-> Undefined]
InlinePart(data) == [inlineData |-> data]
ImageResponses ==
    { Throw(<<"quota", "exceeded">>), Parts(<<>>), Parts(<<TextPart>>) }
    \cup { Parts(<<InlinePart(d)>>) : d \in ImageData }
    \cup { Parts(<<TextPart, InlinePart(d)>>) : d \in ImageData }

\* for (const part of parts) if (part.inlineData) return ...
RECURSIVE FirstInline(_)
FirstInline(parts) ==
    IF parts = <<>> THEN Undefined
    ELSE IF Truthy(Head(parts).inlineData) THEN Head(parts).inlineData
    ELSE FirstInline(Tail(parts))
\* the image a response carries, undefined when it carries none or the call threw
ImageOf(resp) == IF resp.kind = "ok" THEN FirstInline(resp.parts) ELSE Undefined

ProImage == "gemini-3-pro-image-preview"
FlashImage == "gemini-2.5-flash-image"
ProText == "gemini-3-pro-preview"
FlashText == "gemini-3-flash-preview"

\* one provider call: the model asked, what the request is about, and the
\* seed image, correction feedback or diagram sent along
Call(api, model, about, seed, feedback, image) ==
    [api |-> api, model |-> model, about |-> about,
     seed |-> seed, feedback |-> feedback, image |-> image]

\* what a promise settles to, and the provider calls made on the way
Resolved(value, log) == [ok |-> TRUE, value |-> value, error |-> <<>>, log |-> log]
Rejected(error, log) == [ok |-> FALSE, value |-> NullObj, error |-> error, log |-> log]

-----------------------------------------------------------------------------
(* Diagram synthesizers.  They resolve to a data URL or to undefined.      *)

\* generateDiagram: the high tier first, the low tier only from the catch block
GenerateDiagram(description, type, pro, flash) ==
    LET first == Call("image", ProImage, description, Undefined, Undefined, Undefined)
        second == Call("image", FlashImage, description, Undefined, Undefined, Undefined)
    IN  IF pro.kind = "ok"
        THEN [value |-> IF Truthy(ImageOf(pro)) THEN DataUrl(ImageOf(pro)) ELSE Undefined,
              log |-> <<first>>]
        ELSE [value |-> IF Truthy(ImageOf(flash)) THEN DataUrl(ImageOf(flash)) ELSE Undefined,
              log |-> <<first, second>>]

\* a slip: the exception escapes instead of being logged
GenerateReconstructedDiagramUncaught(prompt, sourceImageBase64, correctionFeedback, resp) ==
    [value |-> IF Truthy(ImageOf(resp)) THEN DataUrl(ImageOf(resp)) ELSE Undefined,
     threw |-> resp.kind = "throw",
     log |-> <<Call("image", ProImage, prompt, sourceImageBase64, correctionFeedback, Undefined)>>]

\* generateReconstructedDiagram: one call on the high tier, undefined on any failure
GenerateReconstructedDiagram(prompt, sourceImageBase64, correctionFeedback, resp) ==
    [value |-> IF Truthy(ImageOf(resp)) THEN DataUrl(ImageOf(resp)) ELSE Undefined,
     threw |-> FALSE,
     log |-> <<Call("image", ProImage, prompt, sourceImageBase64, correctionFeedback, Undefined)>>]

-----------------------------------------------------------------------------
(* Diagram verifier.                                                       *)

Verdict(isAccurate, feedback) ==
    [kind |-> "object", isAccurate |-> isAccurate, feedback |-> feedback]
Accurate == Verdict("true", "")
\* what the provider's text may parse to
VerdictJson ==
    { Accurate,
      Verdict("false", "labels misplaced"),
      Verdict(Undefined, "labels misplaced"),
      [kind |-> "null", isAccurate |-> Undefined, feedback |-> Undefined] }
VerifierResponses ==
    { Throw(<<"quota", "exceeded">>), Text(NoText), Text(Garbage) }
    \cup { Text(Json(v)) : v \in VerdictJson }

\* a slip: the catch block rethrows
VerifyDiagramAccuracyRethrows(question, diagramBase64, resp) ==
    LET log == <<Call("text", FlashText, question, Undefined, Undefined, Base64Of(diagramBase64))>>
        parsed == JsonParse(resp.text, Accurate)
    IN  IF resp.kind = "throw" THEN [threw |-> TRUE, value |-> Accurate, log |-> log]
        ELSE IF parsed.threw THEN [threw |-> FALSE, value |-> Accurate, log |-> log]
        ELSE [threw |-> FALSE, value |-> parsed.value, log |-> log]

\* verifyDiagramAccuracy: the call and the parse are both inside the try
VerifyDiagramAccuracy(question, diagramBase64, resp) ==
    LET log == <<Call("text", FlashText, question, Undefined, Undefined, Base64Of(diagramBase64))>>
        parsed == JsonParse(resp.text, Accurate)
    IN  IF resp.kind = "throw" THEN [threw |-> FALSE, value |-> Accurate, log |-> log]
        ELSE IF parsed.threw THEN [threw |-> FALSE, value |-> Accurate, log |-> log]
        ELSE [threw |-> FALSE, value |-> parsed.value, log |-> log]

-----------------------------------------------------------------------------
(* generatePractice: the skeleton call, then the correction loop for each  *)
(* question in turn.                                                       *)

MaxBatch == 2
QuestionText == <<"q1", "q2", "q3", "q4">>
Question(i) ==
    [question |-> QuestionText[i], answer |-> "a", difficulty |-> "medium", diagram |-> Undefined]
Batch(n) == [i \in 1..n |-> Question(i)]
\* what the skeleton text may parse to: an array of up to MaxBatch questions, or no array
ArrayJson(items) == [kind |-> "array", items |-> items]
\* difficulty: '基础' | '中等' | '困难', written basic, medium, hard
Levels == {"basic", "medium", "hard"}
\* arrays the response schema admits as well: `difficulty: { type: Type.STRING }`,
\* not required, so a question may come without one or with any string
UngradedBatches == { <<[Question(1) EXCEPT !.difficulty = d]>> : d \in {Undefined, "expert"} }
SkeletonJson ==
    { ArrayJson(Batch(n)) : n \in 0..MaxBatch }
    \cup { ArrayJson(b) : b \in UngradedBatches }
    \cup { [kind |-> "null", items |-> <<>>] }
SkeletonResponses ==
    { Throw(<<"quota", "exceeded">>), Text(NoText), Text(Garbage) }
    \cup { Text(Json(v)) : v \in SkeletonJson }

\* the responses to the calls one question's loop may make
\* the first synthesis answers with imgA and the corrective one with imgB, when they answer
LoopOracles ==
    [synth1 : { Throw(<<"quota", "exceeded">>), Parts(<<TextPart>>), Parts(<<InlinePart("imgA")>>) },
     verify : VerifierResponses,
     synth2 : { Throw(<<"quota", "exceeded">>), Parts(<<TextPart>>), Parts(<<InlinePart("imgB")>>) }]
\* the number of questions a skeleton response yields
BatchSize(resp) ==
    IF resp.kind = "ok" /\ resp.text.syntax = "json" THEN Len(resp.text.value.items) ELSE 0
\* the responses to one generatePractice call: the skeleton's, and one loop oracle
\* for each question of the skeleton
PracticeOracle(skeleton, loops) == [skeleton |-> skeleton, loops |-> loops]

\* a slip: the corrected diagram replaces the first one even when it is missing
CorrectionLoopDiscardsFirst(q, o) ==
    LET first == GenerateReconstructedDiagram(q.question, Undefined, Undefined, o.synth1)
        check == VerifyDiagramAccuracy(q.question, first.value, o.verify)
        corrected == GenerateReconstructedDiagram(q.question, Undefined, check.value.feedback, o.synth2)
    IN  IF first.threw THEN [threw |-> TRUE, diagram |-> Undefined, log |-> first.log]
        ELSE IF Falsy(first.value) THEN [threw |-> FALSE, diagram |-> Undefined, log |-> first.log]
        ELSE IF check.threw \/ IsNull(check.value)
             THEN [threw |-> TRUE, diagram |-> Undefined, log |-> first.log \o check.log]
        ELSE IF Truthy(check.value.isAccurate)
             THEN [threw |-> FALSE, diagram |-> first.value, log |-> first.log \o check.log]
        ELSE [threw |-> corrected.threw, diagram |-> corrected.value,
              log |-> first.log \o check.log \o corrected.log]

\* a slip: the verifier is asked even when there is no diagram to verify
CorrectionLoopVerifiesNothing(q, o) ==
    LET first == GenerateReconstructedDiagram(q.question, Undefined, Undefined, o.synth1)
        check == VerifyDiagramAccuracy(q.question, first.value, o.verify)
        corrected == GenerateReconstructedDiagram(q.question, Undefined, check.value.feedback, o.synth2)
    IN  IF first.threw THEN [threw |-> TRUE, diagram |-> Undefined, log |-> first.log]
        ELSE IF check.threw \/ IsNull(check.value)
             THEN [threw |-> TRUE, diagram |-> Undefined, log |-> first.log \o check.log]
        ELSE IF Truthy(check.value.isAccurate)
             THEN [threw |-> FALSE, diagram |-> first.value, log |-> first.log \o check.log]
        ELSE [threw |-> corrected.threw,
              diagram |-> IF Truthy(corrected.value) THEN corrected.value ELSE first.value,
              log |-> first.log \o check.log \o corrected.log]

\* a slip: the correction is retried until it yields an image
CorrectionLoopRetries(q, o) ==
    LET first == GenerateReconstructedDiagram(q.question, Undefined, Undefined, o.synth1)
        check == VerifyDiagramAccuracy(q.question, first.value, o.verify)
        corrected == GenerateReconstructedDiagram(q.question, Undefined, check.value.feedback, o.synth2)
        again == GenerateReconstructedDiagram(q.question, Undefined, check.value.feedback, o.synth2)
    IN  IF first.threw THEN [threw |-> TRUE, diagram |-> Undefined, log |-> first.log]
        ELSE IF Falsy(first.value) THEN [threw |-> FALSE, diagram |-> Undefined, log |-> first.log]
        ELSE IF check.threw \/ IsNull(check.value)
             THEN [threw |-> TRUE, diagram |-> Undefined, log |-> first.log \o check.log]
        ELSE IF Truthy(check.value.isAccurate)
             THEN [threw |-> FALSE, diagram |-> first.value, log |-> first.log \o check.log]
        ELSE IF Truthy(corrected.value)
             THEN [threw |-> corrected.threw, diagram |-> corrected.value,
                   log |-> first.log \o check.log \o corrected.log]
        ELSE [threw |-> again.threw, diagram |-> first.value,
              log |-> first.log \o check.log \o corrected.log \o again.log]

\* a slip: the corrected diagram is handed to the verifier as well
CorrectionLoopReverifies(q, o) ==
    LET first == GenerateReconstructedDiagram(q.question, Undefined, Undefined, o.synth1)
        check == VerifyDiagramAccuracy(q.question, first.value, o.verify)
        corrected == GenerateReconstructedDiagram(q.question, Undefined, check.value.feedback, o.synth2)
        recheck == VerifyDiagramAccuracy(q.question, corrected.value, o.verify)
    IN  IF first.threw THEN [threw |-> TRUE, diagram |-> Undefined, log |-> first.log]
        ELSE IF Falsy(first.value) THEN [threw |-> FALSE, diagram |-> Undefined, log |-> first.log]
        ELSE IF check.threw \/ IsNull(check.value)
             THEN [threw |-> TRUE, diagram |-> Undefined, log |-> first.log \o check.log]
        ELSE IF Truthy(check.value.isAccurate)
             THEN [threw |-> FALSE, diagram |-> first.value, log |-> first.log \o check.log]
        ELSE IF Truthy(corrected.value)
             THEN [threw |-> corrected.threw, diagram |-> corrected.value,
                   log |-> first.log \o check.log \o corrected.log \o recheck.log]
        ELSE [threw |-> corrected.threw, diagram |-> first.value,
              log |-> first.log \o check.log \o corrected.log]

\* a slip: the corrective synthesis is not told what the verifier found
CorrectionLoopDropsFeedback(q, o) ==
    LET first == GenerateReconstructedDiagram(q.question, Undefined, Undefined, o.synth1)
        check == VerifyDiagramAccuracy(q.question, first.value, o.verify)
        corrected == GenerateReconstructedDiagram(q.question, Undefined, Undefined, o.synth2)
    IN  IF first.threw THEN [threw |-> TRUE, diagram |-> Undefined, log |-> first.log]
        ELSE IF Falsy(first.value) THEN [threw |-> FALSE, diagram |-> Undefined, log |-> first.log]
        ELSE IF check.threw \/ IsNull(check.value)
             THEN [threw |-> TRUE, diagram |-> Undefined, log |-> first.log \o check.log]
        ELSE IF Truthy(check.value.isAccurate)
             THEN [threw |-> FALSE, diagram |-> first.value, log |-> first.log \o check.log]
        ELSE [threw |-> corrected.threw,
              diagram |-> IF Truthy(corrected.value) THEN corrected.value ELSE first.value,
              log |-> first.log \o check.log \o corrected.log]

\* the body of `for (const q of questions)`: synthesize, verify, correct once.
\* check.isAccurate of a null verdict is a TypeError.
CorrectionLoop(q, o) ==
    LET first == GenerateReconstructedDiagram(q.question, Undefined, Undefined, o.synth1)
        check == VerifyDiagramAccuracy(q.question, first.value, o.verify)
        corrected == GenerateReconstructedDiagram(q.question, Undefined, check.value.feedback, o.synth2)
    IN  IF first.threw THEN [threw |-> TRUE, diagram |-> Undefined, log |-> first.log]
        ELSE IF Falsy(first.value) THEN [threw |-> FALSE, diagram |-> Undefined, log |-> first.log]
        ELSE IF check.threw \/ IsNull(check.value)
             THEN [threw |-> TRUE, diagram |-> Undefined, log |-> first.log \o check.log]
        ELSE IF Truthy(check.value.isAccurate)
             THEN [threw |-> FALSE, diagram |-> first.value, log |-> first.log \o check.log]
        ELSE [threw |-> corrected.threw,
              diagram |-> IF Truthy(corrected.value) THEN corrected.value ELSE first.value,
              log |-> first.log \o check.log \o corrected.log]

\* the loop over the questions from index i on; done holds the questions already enriched
RECURSIVE EnrichFrom(_, _, _, _, _)
EnrichFrom(questions, i, loops, done, log) ==
    IF i > Len(questions) THEN Resolved(ArrayJson(done), log)
    ELSE LET r == CorrectionLoop(questions[i], loops[i])
         IN  IF r.threw THEN Rejected(TypeError, log \o r.log)
             ELSE EnrichFrom(questions, i + 1, loops,
                             Append(done, [questions[i] EXCEPT !.diagram = r.diagram]),
                             log \o r.log)

GeneratePractice(weakPoints, prob, o) ==
    LET log == <<Call("text", FlashText, "practice", Undefined, Undefined, Undefined)>>
        parsed == JsonParse(o.skeleton.text, ArrayJson(<<>>))
    IN  IF o.skeleton.kind = "throw" THEN Rejected(o.skeleton.message, log)
        ELSE IF parsed.threw THEN Rejected(SyntaxError, log)
        ELSE IF parsed.value.kind # "array" THEN Rejected(TypeError, log)
        ELSE EnrichFrom(parsed.value.items, 1, o.loops, <<>>, log)

-----------------------------------------------------------------------------
(* analyzeImage: the recognition call, then one seeded synthesis.          *)

ProblemTexts == {"p1", "p2"}
ProblemObject(text) ==
    [kind |-> "object", originalText |-> text, diagramDescription |-> "desc",
     keyKnowledgePoints |-> <<"kp-" \o text>>, diagram |-> Undefined, sourceImage |-> Undefined]
\* the JSON text '{}'
EmptyObject ==
    [kind |-> "object", originalText |-> Undefined, diagramDescription |-> Undefined,
     keyKnowledgePoints |-> <<>>, diagram |-> Undefined, sourceImage |-> Undefined]
NullProblem ==
    [kind |-> "null", originalText |-> Undefined, diagramDescription |-> Undefined,
     keyKnowledgePoints |-> <<>>, diagram |-> Undefined, sourceImage |-> Undefined]
RecognitionJson == { ProblemObject(t) : t \in ProblemTexts } \cup { EmptyObject, NullProblem }
RecognitionResponses ==
    { Throw(<<"fetch", "failed">>), Text(NoText), Text(Garbage) }
    \cup { Text(Json(v)) : v \in RecognitionJson }
AnalyzeOracles == [recognition : RecognitionResponses, synth : ImageResponses]
\* the captured images handed to handleCapture, never empty
Captures == { <<"capA">>, <<"capB", "capA">> }

AnalyzeImage(images, o) ==
    LET log == <<Call("text", FlashText, "recognize", images[1], Undefined, Undefined)>>
        parsed == JsonParse(o.recognition.text, EmptyObject)
        result == parsed.value
        drawn == GenerateReconstructedDiagram(result.originalText \o "+" \o result.diagramDescription,
                                              images[1], Undefined, o.synth)
    IN  IF o.recognition.kind = "throw" THEN Rejected(o.recognition.message, log)
        ELSE IF parsed.threw THEN Rejected(SyntaxError, log)
        ELSE IF IsNull(result) THEN Rejected(TypeError, log)
        ELSE IF drawn.threw THEN Rejected(<<"quota", "exceeded">>, log \o drawn.log)
        ELSE Resolved([result EXCEPT !.diagram = drawn.value,
                                     !.sourceImage = "data:image/jpeg;base64," \o images[1]],
                      log \o drawn.log)

-----------------------------------------------------------------------------
(* compareSteps.                                                           *)

Plain(s) == [syntax |-> "plain", value |-> s]
NoReference == [kind |-> "undefined", uri |-> <<>>]
ComparisonObject(analysis, weakPoints) ==
    [kind |-> "object", userStepsAnalysis |-> analysis, discrepancies |-> <<>>,
     weakPoints |-> weakPoints, groundingUrls |-> <<>>, textbookReference |-> NoReference]
NullComparison ==
    [kind |-> "null", userStepsAnalysis |-> Undefined, discrepancies |-> <<>>,
     weakPoints |-> <<>>, groundingUrls |-> <<>>, textbookReference |-> NoReference]
CompareResponses ==
    { Throw(m) : m \in ErrorMessages } \cup { Text(NoText), Text(Plain("analysis")) }
CompareOracles == [pro : CompareResponses, flash : CompareResponses]
\* response.text || fallback
TextOr(text, fallback) == IF text.syntax = "empty" THEN fallback ELSE text.value
ProModelNotFound == <<"PRO_MODEL_NOT_FOUND">>

\* a slip: the signature test is skipped and every failure falls back
CompareStepsAlwaysFallsBack(prob, steps, o) ==
    LET first == Call("text", ProText, prob.originalText, Undefined, Undefined, Undefined)
        second == Call("text", FlashText, prob.originalText, Undefined, Undefined, Undefined)
    IN  IF o.pro.kind = "ok"
        THEN Resolved(ComparisonObject(TextOr(o.pro.text, "no analysis"), prob.keyKnowledgePoints),
                      <<first>>)
        ELSE IF o.flash.kind = "ok"
        THEN Resolved(ComparisonObject(TextOr(o.flash.text, "abnormal"), prob.keyKnowledgePoints),
                      <<first, second>>)
        ELSE Rejected(o.flash.message, <<first, second>>)

\* a slip: a placeholder record is returned when both tiers fail
CompareStepsPlaceholder(prob, steps, o) ==
    LET first == Call("text", ProText, prob.originalText, Undefined, Undefined, Undefined)
        second == Call("text", FlashText, prob.originalText, Undefined, Undefined, Undefined)
    IN  IF o.pro.kind = "ok"
        THEN Resolved(ComparisonObject(TextOr(o.pro.text, "no analysis"), prob.keyKnowledgePoints),
                      <<first>>)
        ELSE IF Includes(o.pro.message, "Requested entity was not found")
                \/ Includes(o.pro.message, "404")
        THEN Rejected(ProModelNotFound, <<first>>)
        ELSE IF o.flash.kind = "ok"
        THEN Resolved(ComparisonObject(TextOr(o.flash.text, "abnormal"), prob.keyKnowledgePoints),
                      <<first, second>>)
        ELSE Resolved(ComparisonObject("abnormal", prob.keyKnowledgePoints), <<first, second>>)

\* a slip: the high tier is asked again before the lower tier
CompareStepsRetriesPro(prob, steps, o) ==
    LET first == Call("text", ProText, prob.originalText, Undefined, Undefined, Undefined)
        second == Call("text", FlashText, prob.originalText, Undefined, Undefined, Undefined)
    IN  IF o.pro.kind = "ok"
        THEN Resolved(ComparisonObject(TextOr(o.pro.text, "no analysis"), prob.keyKnowledgePoints),
                      <<first>>)
        ELSE IF Includes(o.pro.message, "Requested entity was not found")
                \/ Includes(o.pro.message, "404")
        THEN Rejected(ProModelNotFound, <<first>>)
        ELSE IF o.flash.kind = "ok"
        THEN Resolved(ComparisonObject(TextOr(o.flash.text, "abnormal"), prob.keyKnowledgePoints),
                      <<first, first, second>>)
        ELSE Rejected(o.flash.message, <<first, first, second>>)

\* a slip: the weak points are taken from the learner's text
CompareStepsReadsSteps(prob, steps, o) ==
    LET first == Call("text", ProText, prob.originalText, Undefined, Undefined, Undefined)
        second == Call("text", FlashText, prob.originalText, Undefined, Undefined, Undefined)
    IN  IF o.pro.kind = "ok"
        THEN Resolved(ComparisonObject(TextOr(o.pro.text, "no analysis"), <<steps>>), <<first>>)
        ELSE IF Includes(o.pro.message, "Requested entity was not found")
                \/ Includes(o.pro.message, "404")
        THEN Rejected(ProModelNotFound, <<first>>)
        ELSE IF o.flash.kind = "ok"
        THEN Resolved(ComparisonObject(TextOr(o.flash.text, "abnormal"), <<steps>>),
                      <<first, second>>)
        ELSE Rejected(o.flash.message, <<first, second>>)

\* compareSteps with its fallback: the high tier, the signature test, the low tier
CompareSteps(prob, steps, o) ==
    LET first == Call("text", ProText, prob.originalText, Undefined, Undefined, Undefined)
        second == Call("text", FlashText, prob.originalText, Undefined, Undefined, Undefined)
    IN  IF o.pro.kind = "ok"
        THEN Resolved(ComparisonObject(TextOr(o.pro.text, "no analysis"), prob.keyKnowledgePoints),
                      <<first>>)
        ELSE IF Includes(o.pro.message, "Requested entity was not found")
                \/ Includes(o.pro.message, "404")
        THEN Rejected(ProModelNotFound, <<first>>)
        ELSE IF o.flash.kind = "ok"
        THEN Resolved(ComparisonObject(TextOr(o.flash.text, "abnormal"), prob.keyKnowledgePoints),
                      <<first, second>>)
        ELSE Rejected(o.flash.message, <<first, second>>)

(* The grounded compareSteps returns the provider's JSON as it is.  URIs   *)
(* are sequences of characters.                                            *)

Https == <<"h", "t", "t", "p", "s", ":", "/", "/">>
HttpsUri == Https \o <<"a">>
HttpUri == <<"h", "t", "t", "p", ":", "/", "/", "a">>
TextbookUri == <<"t", "e", "x", "t", "b", "o", "o", "k", ":", "/", "/", "a">>
Uris == { <<>>, HttpsUri, HttpUri, TextbookUri }
\* s.startsWith(prefix)
StartsWith(s, prefix) == Len(s) >= Len(prefix) /\ SubSeq(s, 1, Len(prefix)) = prefix
Link(uri) == [title |-> "ref", uri |-> uri]
Reference(uri) == [kind |-> "object", uri |-> uri]
GroundedJson ==
    { [ComparisonObject("analysis", <<"kp">>) EXCEPT !.groundingUrls = g, !.textbookReference = t] :
        g \in { <<>> } \cup { <<Link(u)>> : u \in Uris } \cup { <<Link(HttpsUri), Link(u)>> : u \in Uris },
        t \in { NoReference } \cup { Reference(u) : u \in Uris } }
GroundedResponses ==
    { Throw(<<"quota", "exceeded">>), Text(NoText), Text(Garbage) }
    \cup { Text(Json(v)) : v \in GroundedJson }

CompareStepsGrounded(prob, steps, resp) ==
    LET log == <<Call("text", ProText, prob.originalText, Undefined, Undefined, Undefined)>>
        parsed == JsonParse(resp.text, ComparisonObject(Undefined, <<>>))
    IN  IF resp.kind = "throw" THEN Rejected(resp.message, log)
        ELSE IF parsed.threw THEN Rejected(SyntaxError, log)
        ELSE Resolved(parsed.value, log)

\* comparison.groundingUrls.map(link => <a href={link.uri}>): the hrefs shown
GroundingLinks(c) == { c.groundingUrls[i].uri : i \in DOMAIN c.groundingUrls }
\* textbookReference.uri && textbookReference.uri.startsWith('http') && <a href={uri}>
TextbookLinks(c) ==
    IF c.textbookReference.kind = "object" /\ c.textbookReference.uri # <<>>
       /\ StartsWith(c.textbookReference.uri, <<"h", "t", "t", "p">>)
    THEN { c.textbookReference.uri } ELSE {}

-----------------------------------------------------------------------------
(* The service functions called in isolation, once each, with every        *)
(* combination of provider responses.                                      *)

Idle == [fn |-> "idle"]
Weak == <<"kp-p1">>

SvcGenerateDiagram ==
    /\ svc = Idle
    /\ \E pro \in ImageResponses, flash \in ImageResponses :
          svc' = [fn |-> "generateDiagram", oracle |-> [pro |-> pro, flash |-> flash],
                  out |-> GenerateDiagram("desc", "physics", pro, flash)]
    /\ UNCHANGED appVars

SvcGenerateReconstructedDiagram ==
    /\ svc = Idle
    /\ \E resp \in ImageResponses, seed \in {Undefined, "capA"},
          feedback \in {Undefined, "labels misplaced"} :
          svc' = [fn |-> "generateReconstructedDiagram", oracle |-> [pro |-> resp],
                  seed |-> seed, feedback |-> feedback,
                  out |-> GenerateReconstructedDiagram("desc", seed, feedback, resp)]
    /\ UNCHANGED appVars

SvcVerifyDiagramAccuracy ==
    /\ svc = Idle
    /\ \E resp \in VerifierResponses, d \in ImageData :
          svc' = [fn |-> "verifyDiagramAccuracy", oracle |-> resp, diagram |-> DataUrl(d),
                  out |-> VerifyDiagramAccuracy("q1", DataUrl(d), resp)]
    /\ UNCHANGED appVars

SvcGeneratePractice ==
    /\ svc = Idle
    /\ \E r \in SkeletonResponses : \E l \in [1..BatchSize(r) -> LoopOracles] :
          svc' = [fn |-> "generatePractice", oracle |-> PracticeOracle(r, l),
                  out |-> GeneratePractice(Weak, ProblemObject("p1"), PracticeOracle(r, l))]
    /\ UNCHANGED appVars

SvcAnalyzeImage ==
    /\ svc = Idle
    /\ \E o \in AnalyzeOracles, images \in Captures :
          svc' = [fn |-> "analyzeImage", oracle |-> o, images |-> images,
                  out |-> AnalyzeImage(images, o)]
    /\ UNCHANGED appVars

SvcCompareSteps ==
    /\ svc = Idle
    /\ \E o \in CompareOracles, steps \in {"radius ratio 1:2:1", "x"} :
          svc' = [fn |-> "compareSteps", oracle |-> o, steps |-> steps,
                  out |-> CompareSteps(ProblemObject("p1"), steps, o)]
    /\ UNCHANGED appVars

SvcCompareStepsGrounded ==
    /\ svc = Idle
    /\ \E resp \in GroundedResponses :
          svc' = [fn |-> "compareStepsGrounded", oracle |-> resp,
                  out |-> CompareStepsGrounded(ProblemObject("p1"), "x", resp)]
    /\ UNCHANGED appVars

-----------------------------------------------------------------------------
(* App: the stage machine.  A handler runs to its await in one step and    *)
(* from the settling of the awaited call to its end in another.            *)

MaxCalls == 3
NoError == "null"
CaptureFailed == "analysis failed, take a clearer photo"
ComparisonFailed == "diagnosis failed"
PracticeFailed == "practice generation failed"
\* userSteps.trim()
Trim(text) == IF text \in {"", " "} THEN "" ELSE text
StepsTexts == {"", " ", "radius ratio 1:2:1"}

\* the capture the handlers are tried with: two pages
AppCaptures == { <<"capB", "capA">> }
\* the provider responses tried against the handlers: one oracle for each course
\* the service function can take
AppAnalyzeOracles ==
    [recognition : { Throw(<<"fetch", "failed">>), Text(Json(ProblemObject("p1"))) },
     synth : { Throw(<<"quota", "exceeded">>), Parts(<<TextPart>>), Parts(<<InlinePart("imgA")>>) }]
    \cup { [recognition |-> Text(Json(ProblemObject("p2"))),
            synth |-> Throw(<<"quota", "exceeded">>)] }
AppCompareOracles ==
    { [pro |-> Text(Plain("analysis")), flash |-> Text(Plain("analysis"))],
      [pro |-> Throw(<<"Requested entity was not found">>), flash |-> Text(Plain("analysis"))],
      [pro |-> Throw(<<"quota", "exceeded">>), flash |-> Text(Plain("analysis"))],
      [pro |-> Throw(<<"quota", "exceeded">>), flash |-> Throw(<<"fetch", "failed">>)] }
AppLoopOracles ==
    { [synth1 |-> Throw(<<"quota", "exceeded">>), verify |-> Text(NoText), synth2 |-> Parts(<<TextPart>>)],
      [synth1 |-> Parts(<<InlinePart("imgA")>>), verify |-> Text(Json(Verdict("false", "labels misplaced"))),
       synth2 |-> Parts(<<InlinePart("imgB")>>)] }
AppPracticeOracles ==
    { [skeleton |-> Throw(<<"quota", "exceeded">>), loops |-> <<>>],
      [skeleton |-> Text(NoText), loops |-> <<>>] }
    \cup { [skeleton |-> Text(Json(ArrayJson(Batch(MaxBatch)))), loops |-> [i \in 1..MaxBatch |-> l]] :
           l \in AppLoopOracles }

Suspend(handler, images, prob, steps, weakPoints) ==
    /\ started < MaxCalls
    /\ started' = started + 1
    /\ inflight' = inflight \cup { [id |-> started + 1, handler |-> handler, images |-> images,
                                   problem |-> prob, steps |-> steps, weakPoints |-> weakPoints,
                                   stale |-> FALSE] }
\* the progress interval of a handler once its call has settled: startPractice sets
\* one before the await and clears it on the line after the await, inside the try;
\* handleCapture and handleComparison set none
TimerAfter(handler, out) ==
    IF handler # "startPractice" THEN "none"
    ELSE IF out.ok THEN "cleared" ELSE "running"
Settle(c, oracle, out) ==
    /\ inflight' = inflight \ {c}
    /\ last' = [seq |-> last.seq + 1, handler |-> c.handler, stale |-> c.stale,
                oracle |-> oracle, out |-> out, timer |-> TimerAfter(c.handler, out)]
    /\ UNCHANGED started

\* <button onClick={() => setStage('SCANNING')}>
StartScanning ==
    /\ stage = "START"
    /\ stage' = "SCANNING"
    /\ UNCHANGED <<svc, favorites, loading, errorMsg, problem, userSteps, comparison, practice, inflight, started, last>>

\* <Scanner onCancel={() => setStage('START')} />
CancelScanning ==
    /\ stage = "SCANNING"
    /\ stage' = "START"
    /\ UNCHANGED <<svc, favorites, loading, errorMsg, problem, userSteps, comparison, practice, inflight, started, last>>

\* handleCapture up to `await gemini.analyzeImage`: from the scanner or the file input
HandleCapture(images) ==
    /\ stage \in {"START", "SCANNING"}
    /\ Suspend("handleCapture", images, NullProblem, "", <<>>)
    /\ loading' = TRUE
    /\ stage' = "ANALYZING"
    /\ UNCHANGED <<svc, favorites, errorMsg, problem, userSteps, comparison, practice, last>>

\* a slip: the failed capture leaves an empty record behind
HandleCaptureSettledStoresPartial(c, o) ==
    LET result == AnalyzeImage(c.images, o)
    IN  /\ c \in inflight /\ c.handler = "handleCapture"
        /\ Settle(c, o, result)
        /\ IF result.ok
           THEN /\ problem' = result.value
                /\ stage' = "USER_INPUT"
                /\ errorMsg' = NoError
           ELSE /\ errorMsg' = CaptureFailed
                /\ stage' = "START"
                /\ problem' = EmptyObject
        /\ loading' = FALSE
        /\ UNCHANGED <<svc, favorites, userSteps, comparison, practice>>

\* a slip: the failed capture leaves the stage where it is
HandleCaptureSettledStaysAnalyzing(c, o) ==
    LET result == AnalyzeImage(c.images, o)
    IN  /\ c \in inflight /\ c.handler = "handleCapture"
        /\ Settle(c, o, result)
        /\ IF result.ok
           THEN /\ problem' = result.value
                /\ stage' = "USER_INPUT"
                /\ errorMsg' = NoError
           ELSE /\ errorMsg' = CaptureFailed
                /\ UNCHANGED <<problem, stage>>
        /\ loading' = FALSE
        /\ UNCHANGED <<svc, favorites, userSteps, comparison, practice>>

\* handleCapture from the settling of analyzeImage on
HandleCaptureSettled(c, o) ==
    LET result == AnalyzeImage(c.images, o)
    IN  /\ c \in inflight /\ c.handler = "handleCapture"
        /\ Settle(c, o, result)
        /\ IF result.ok
           THEN /\ problem' = result.value
                /\ stage' = "USER_INPUT"
                /\ errorMsg' = NoError
           ELSE /\ errorMsg' = CaptureFailed
                /\ stage' = "START"
                /\ UNCHANGED problem
        /\ loading' = FALSE
        /\ UNCHANGED <<svc, favorites, userSteps, comparison, practice>>

\* <textarea onChange={(e) => setUserSteps(e.target.value)} />
SetUserSteps(text) ==
    /\ stage = "USER_INPUT" /\ ~IsNull(problem)
    /\ userSteps' = text
    /\ UNCHANGED <<svc, favorites, stage, loading, errorMsg, problem, comparison, practice, inflight, started, last>>

\* the state handleComparison reads and writes before its await
Session ==
    [stage |-> stage, problem |-> problem, userSteps |-> userSteps, comparison |-> comparison,
     errorMsg |-> errorMsg, loading |-> loading]
\* a slip: the input is tested without trimming it
HandleComparisonReturnsUntrimmed(prob, steps) == IsNull(prob) \/ steps = ""
\* if (!problem || !userSteps.trim()) return;
HandleComparisonReturns(prob, steps) ==
    IsNull(prob) \/ Trim(steps) = ""
\* handleComparison up to `await gemini.compareSteps`, applied to a session: the
\* session it leaves and the compareSteps calls it starts
HandleComparisonStarts(session) ==
    IF HandleComparisonReturns(session.problem, session.userSteps)
    THEN [session |-> session, calls |-> <<>>]
    ELSE [session |-> [session EXCEPT !.loading = TRUE],
          calls |-> <<[problem |-> session.problem, steps |-> session.userSteps]>>]

\* the click on the comparison button; the button is disabled while loading or
\* while the trimmed input is empty
HandleComparison ==
    /\ stage = "USER_INPUT" /\ ~IsNull(problem)
    /\ ~(Trim(userSteps) = "" \/ loading)
    /\ LET after == HandleComparisonStarts(Session)
       IN  /\ after.calls # <<>>
           /\ Suspend("handleComparison", <<>>, after.calls[1].problem, after.calls[1].steps, <<>>)
           /\ loading' = after.session.loading
    /\ UNCHANGED <<svc, favorites, stage, errorMsg, problem, userSteps, comparison, practice, last>>

\* a slip: the failed comparison empties the learner's input
HandleComparisonSettledClearsInput(c, o) ==
    LET result == CompareSteps(c.problem, c.steps, o)
    IN  /\ c \in inflight /\ c.handler = "handleComparison"
        /\ Settle(c, o, result)
        /\ IF result.ok
           THEN /\ comparison' = result.value
                /\ stage' = "COMPARISON"
                /\ UNCHANGED <<errorMsg, userSteps>>
           ELSE /\ errorMsg' = ComparisonFailed
                /\ userSteps' = ""
                /\ UNCHANGED <<comparison, stage>>
        /\ loading' = FALSE
        /\ UNCHANGED <<svc, favorites, problem, practice>>

\* handleComparison from the settling of compareSteps on
HandleComparisonSettled(c, o) ==
    LET result == CompareSteps(c.problem, c.steps, o)
    IN  /\ c \in inflight /\ c.handler = "handleComparison"
        /\ Settle(c, o, result)
        /\ IF result.ok
           THEN /\ comparison' = result.value
                /\ stage' = "COMPARISON"
                /\ UNCHANGED errorMsg
           ELSE /\ errorMsg' = ComparisonFailed
                /\ UNCHANGED <<comparison, stage>>
        /\ loading' = FALSE
        /\ UNCHANGED <<svc, favorites, problem, userSteps, practice>>

\* startPractice up to `await gemini.generatePractice(comparison?.weakPoints || [], problem!)`
StartPractice ==
    /\ stage = "COMPARISON" /\ ~IsNull(comparison)
    /\ Suspend("startPractice", <<>>, problem, "", comparison.weakPoints)
    /\ loading' = TRUE
    /\ UNCHANGED <<svc, favorites, stage, errorMsg, problem, userSteps, comparison, practice, last>>

\* a slip: the stage advances although the generation failed
StartPracticeSettledAdvances(c, o) ==
    LET result == GeneratePractice(c.weakPoints, c.problem, o)
    IN  /\ c \in inflight /\ c.handler = "startPractice"
        /\ Settle(c, o, result)
        /\ IF result.ok
           THEN /\ practice' = result.value.items
                /\ stage' = "PRACTICE"
                /\ UNCHANGED errorMsg
           ELSE /\ errorMsg' = PracticeFailed
                /\ stage' = "PRACTICE"
                /\ UNCHANGED practice
        /\ loading' = FALSE
        /\ UNCHANGED <<svc, favorites, problem, userSteps, comparison>>

\* startPractice from the settling of generatePractice on
StartPracticeSettled(c, o) ==
    LET result == GeneratePractice(c.weakPoints, c.problem, o)
    IN  /\ c \in inflight /\ c.handler = "startPractice"
        /\ Settle(c, o, result)
        /\ IF result.ok
           THEN /\ practice' = result.value.items
                /\ stage' = "PRACTICE"
                /\ UNCHANGED errorMsg
           ELSE /\ errorMsg' = PracticeFailed
                /\ UNCHANGED <<practice, stage>>
        /\ loading' = FALSE
        /\ UNCHANGED <<svc, favorites, problem, userSteps, comparison>>

\* a slip: reset empties the favorites with the session records
ResetClearsFavorites ==
    /\ stage' = "START"
    /\ problem' = NullProblem
    /\ userSteps' = ""
    /\ practice' = <<>>
    /\ comparison' = NullComparison
    /\ errorMsg' = NoError
    /\ favorites' = <<>>
    /\ inflight' = { [c EXCEPT !.stale = TRUE] : c \in inflight }
    /\ UNCHANGED <<svc, loading, started, last>>

\* reset: the logo, the reset button, "finish practice".  The calls in flight go on;
\* they are marked as started before a reset.
Reset ==
    /\ stage' = "START"
    /\ problem' = NullProblem
    /\ userSteps' = ""
    /\ practice' = <<>>
    /\ comparison' = NullComparison
    /\ errorMsg' = NoError
    /\ inflight' = { [c EXCEPT !.stale = TRUE] : c \in inflight }
    /\ UNCHANGED <<svc, favorites, loading, started, last>>

\* the if / else if chain of handleBack
BackTarget ==
    CASE stage = "USER_INPUT" -> "START"
      [] stage = "COMPARISON" -> "USER_INPUT"
      [] stage = "PRACTICE" -> "COMPARISON"
      [] stage = "FAVORITES" -> "START"
      [] OTHER -> stage

\* a slip: going back drops the record of the stage that is left
HandleBackDiscards ==
    /\ stage \notin {"START", "SCANNING"}
    /\ stage' = BackTarget
    /\ comparison' = IF stage = "COMPARISON" THEN NullComparison ELSE comparison
    /\ practice' = IF stage = "PRACTICE" THEN <<>> ELSE practice
    /\ UNCHANGED <<svc, favorites, loading, errorMsg, problem, userSteps, inflight, started, last>>

\* handleBack: the button is rendered outside START and SCANNING
HandleBack ==
    /\ stage \notin {"START", "SCANNING"}
    /\ stage' = BackTarget
    /\ UNCHANGED <<svc, favorites, loading, errorMsg, problem, userSteps, comparison, practice, inflight, started, last>>

canGoForward ==
    \/ stage = "START" /\ ~IsNull(problem)
    \/ stage = "USER_INPUT" /\ ~IsNull(comparison)
    \/ stage = "COMPARISON" /\ Len(practice) > 0

\* a slip: the chain tests the stage only
ForwardTargetUnguarded ==
    CASE stage = "START" -> "USER_INPUT"
      [] stage = "USER_INPUT" -> "COMPARISON"
      [] stage = "COMPARISON" -> "PRACTICE"
      [] OTHER -> stage

\* the if / else if chain of handleForward
ForwardTarget ==
    CASE stage = "START" /\ ~IsNull(problem) -> "USER_INPUT"
      [] stage = "USER_INPUT" /\ ~IsNull(comparison) -> "COMPARISON"
      [] stage = "COMPARISON" /\ Len(practice) > 0 -> "PRACTICE"
      [] OTHER -> stage

\* handleForward: the button is rendered when canGoForward() and not scanning
HandleForward ==
    /\ canGoForward /\ stage # "SCANNING"
    /\ stage' = ForwardTarget
    /\ UNCHANGED <<svc, favorites, loading, errorMsg, problem, userSteps, comparison, practice, inflight, started, last>>

\* <button onClick={() => setStage('FAVORITES')}> of the header and of START
OpenFavorites ==
    /\ stage' = "FAVORITES"
    /\ UNCHANGED <<svc, favorites, loading, errorMsg, problem, userSteps, comparison, practice, inflight, started, last>>

\* {errorMsg && <button onClick={() => setErrorMsg(null)}>}
DismissError ==
    /\ errorMsg # NoError
    /\ errorMsg' = NoError
    /\ UNCHANGED <<svc, favorites, stage, loading, problem, userSteps, comparison, practice, inflight, started, last>>

\* q.problemType || problem?.subject: the questions carry no problemType, and
\* a recognized problem's subject is the one subject of the model
SubjectOf(prob) == IF IsNull(prob) \/ prob.originalText = Undefined THEN Undefined ELSE "Math"
\* { ...q, id, favoritedAt, problemType }: favoritedAt grows with the position in the array
FavoriteItem(q, prob) ==
    [question |-> q.question, answer |-> q.answer, difficulty |-> q.difficulty,
     diagram |-> q.diagram, problemType |-> SubjectOf(prob)]
\* favorites.some(f => f.question === q.question)
IsFavorited(favs, text) == \E k \in DOMAIN favs : favs[k].question = text
\* favorites.filter(f => f.question !== q.question)
RECURSIVE Unfavorited(_, _)
Unfavorited(favs, text) ==
    IF favs = <<>> THEN <<>>
    ELSE IF Head(favs).question = text THEN Unfavorited(Tail(favs), text)
    ELSE <<Head(favs)>> \o Unfavorited(Tail(favs), text)

\* a slip: the record is appended without looking for its text
ToggledAppends(favs, q, prob) == Append(favs, FavoriteItem(q, prob))

\* a slip: only the first record with the text is removed
ToggledRemovesFirst(favs, q, prob) ==
    IF IsFavorited(favs, q.question)
    THEN LET k == CHOOSE k \in DOMAIN favs :
                      favs[k].question = q.question /\ \A m \in 1..(k - 1) : favs[m].question # q.question
         IN  SubSeq(favs, 1, k - 1) \o SubSeq(favs, k + 1, Len(favs))
    ELSE Append(favs, FavoriteItem(q, prob))

\* the favorites after toggleFavorite(q)
Toggled(favs, q, prob) ==
    IF IsFavorited(favs, q.question)
    THEN Unfavorited(favs, q.question)
    ELSE Append(favs, FavoriteItem(q, prob))

\* the questions whose heart button is rendered: the practice batch in PRACTICE,
\* the favorites in FAVORITES
Togglable ==
    IF stage = "PRACTICE" THEN { practice[k] : k \in DOMAIN practice }
    ELSE IF stage = "FAVORITES" THEN { favorites[k] : k \in DOMAIN favorites }
    ELSE {}

\* a slip: toggling also opens the favorites page
ToggleFavoriteOpensFavorites(q) ==
    /\ q \in Togglable
    /\ favorites' = Toggled(favorites, q, problem)
    /\ stage' = "FAVORITES"
    /\ UNCHANGED <<svc, loading, errorMsg, problem, userSteps, comparison, practice, inflight, started, last>>

\* toggleFavorite
ToggleFavorite(q) ==
    /\ q \in Togglable
    /\ favorites' = Toggled(favorites, q, problem)
    /\ UNCHANGED <<svc, stage, loading, errorMsg, problem, userSteps, comparison, practice, inflight, started, last>>

\* favorites as the load effect may find them in localStorage: any array of
\* records, repeated question texts included
MaxFavorites == 3
FavoriteTexts == {"q1", "q2"}
RECURSIVE FavoriteLists(_)
FavoriteLists(n) ==
    IF n = 0 THEN { <<>> }
    ELSE FavoriteLists(n - 1)
         \cup { Append(favs, FavoriteItem([Question(1) EXCEPT !.question = t], NullProblem)) :
                 favs \in { f \in FavoriteLists(n - 1) : Len(f) = n - 1 }, t \in FavoriteTexts }

\* toggleFavorite applied twice in succession to the same question
SvcToggleFavorite ==
    /\ svc = Idle
    /\ \E favs \in FavoriteLists(MaxFavorites), t \in FavoriteTexts :
          LET q == [Question(1) EXCEPT !.question = t]
              once == Toggled(favs, q, ProblemObject("p1"))
          IN  svc' = [fn |-> "toggleFavorite", favorites |-> favs, q |-> q, once |-> once,
                      twice |-> Toggled(once, q, ProblemObject("p1"))]
    /\ UNCHANGED appVars

-----------------------------------------------------------------------------
(* Rendering of a record's figure on the problem card and the practice card. *)

\* gridData?: (string | null)[][], a cell being a string or "null"
NoGrid == [kind |-> "undefined", rows |-> <<>>]
Grid(rows) == [kind |-> "array", rows |-> rows]
EmptyRow == <<"null", "null", "null">>
Grids ==
    { NoGrid,
      Grid(<<EmptyRow, EmptyRow, EmptyRow>>),
      Grid(<<EmptyRow, <<"null", "7", "null">>, EmptyRow>>),
      Grid(<<<<"1", "2", "3">>, <<"4", "5", "6">>, <<"7", "8", "?">>>>) }
\* the records handed to the cards: with or without a diagram, with or without a grid
RenderedRecords ==
    { [Question(1) EXCEPT !.diagram = d] @@ [gridData |-> g] :
        d \in {Undefined, DataUrl("imgA")}, g \in Grids }
\* {record.diagram && <img src={record.diagram} />}: the cards read no other field
RenderedFigure(record) == IF Truthy(record.diagram) THEN "image" ELSE "nothing"

SvcRender ==
    /\ svc = Idle
    /\ \E record \in RenderedRecords :
          svc' = [fn |-> "render", record |-> record, figure |-> RenderedFigure(record)]
    /\ UNCHANGED appVars

\* handleComparison called in any session, the ones its button is disabled in included
Sessions ==
    [stage : {"START", "USER_INPUT"}, problem : {NullProblem, ProblemObject("p1")},
     userSteps : StepsTexts,
     comparison : {NullComparison, ComparisonObject("analysis", <<"kp-p1">>)},
     errorMsg : {NoError, ComparisonFailed}, loading : BOOLEAN]
SvcHandleComparison ==
    /\ svc = Idle
    /\ \E session \in Sessions :
          svc' = [fn |-> "handleComparison", session |-> session,
                  after |-> HandleComparisonStarts(session)]
    /\ UNCHANGED appVars

\* compareSteps called twice for one problem, with different learner texts; the
\* provider is free to answer the two calls differently
SvcCompareStepsTwice ==
    /\ svc = Idle
    /\ \E t \in ProblemTexts, o1 \in CompareOracles, o2 \in CompareOracles :
          svc' = [fn |-> "compareSteps.twice", problem |-> ProblemObject(t),
                  one |-> CompareSteps(ProblemObject(t), "radius ratio 1:2:1", o1),
                  other |-> CompareSteps(ProblemObject(t), "x", o2)]
    /\ UNCHANGED appVars

Init ==
    /\ svc = Idle
    /\ stage = "START"
    /\ loading = FALSE
    /\ errorMsg = "null"
    /\ problem = NullProblem
    /\ userSteps = ""
    /\ comparison = NullComparison
    /\ practice = <<>>
    /\ favorites = <<>>
    /\ inflight = {}
    /\ started = 0
    /\ last = [seq |-> 0, handler |-> "none", stale |-> FALSE, timer |-> "none"]

Next ==
    \/ StartScanning
    \/ CancelScanning
    \/ \E images \in AppCaptures : HandleCapture(images)
    \/ \E c \in inflight, o \in AppAnalyzeOracles : HandleCaptureSettled(c, o)
    \/ \E text \in StepsTexts : SetUserSteps(text)
    \/ HandleComparison
    \/ \E c \in inflight, o \in AppCompareOracles : HandleComparisonSettled(c, o)
    \/ StartPractice
    \/ \E c \in inflight, o \in AppPracticeOracles : StartPracticeSettled(c, o)
    \/ Reset
    \/ HandleBack
    \/ HandleForward
    \/ OpenFavorites
    \/ DismissError
    \/ \E q \in Togglable : ToggleFavorite(q)

Spec == Init /\ [][Next]_vars
\* The capture pipeline with the navigation around it, under the assumption that
\* the provider answers or fails every analyzeImage call in the end.
NextCapture ==
    \/ StartScanning
    \/ CancelScanning
    \/ \E images \in AppCaptures : HandleCapture(images)
    \/ \E c \in inflight, o \in AppAnalyzeOracles : HandleCaptureSettled(c, o)
    \/ Reset
    \/ HandleBack
    \/ HandleForward
    \/ OpenFavorites
    \/ DismissError

SpecFair ==
    /\ Init
    /\ [][NextCapture]_vars
    /\ WF_vars(\E c \in inflight, o \in AppAnalyzeOracles : HandleCaptureSettled(c, o))

NextSvc ==
    \/ SvcGenerateDiagram
    \/ SvcGenerateReconstructedDiagram
    \/ SvcVerifyDiagramAccuracy
    \/ SvcGeneratePractice
    \/ SvcAnalyzeImage
    \/ SvcCompareSteps
    \/ SvcCompareStepsGrounded
    \/ SvcToggleFavorite
    \/ SvcRender
    \/ SvcHandleComparison
    \/ SvcCompareStepsTwice

SpecSvc == Init /\ [][NextSvc]_vars

-----------------------------------------------------------------------------
(* generatePractice step by step: one action for the call and one for each *)
(* settled await.  The responses are chosen as they arrive and kept in     *)
(* skeleton and loops; inflight holds the log positions of the provider    *)
(* calls not yet answered.                                                 *)

NotAsked == Throw(<<"not", "asked">>)
NoLoop == [synth1 |-> NotAsked, verify |-> NotAsked, synth2 |-> NotAsked]
Pending == Rejected(<<"pending">>, <<>>)
\* the request a synthesis or a verification sends, whatever the answer will be
SynthesisCall(q, feedback) ==
    GenerateReconstructedDiagram(q.question, Undefined, feedback, NotAsked).log[1]
VerifierCall(q, diagram) ==
    VerifyDiagramAccuracy(q.question, diagram, NotAsked).log[1]
\* q.diagram = diagram
Stored(run) ==
    [run EXCEPT !.done = Append(@, [run.questions[run.i] EXCEPT !.diagram = run.diagram])]

\* a slip: the first synthesis of the following question is requested along with this one's
NextQuestionsTogether(run, i) ==
    IF i > Len(run.questions)
    THEN [run EXCEPT !.pc = "resolved", !.i = i, !.inflight = {},
                     !.out = Resolved(ArrayJson(run.done), run.log)]
    ELSE IF i = Len(run.questions)
    THEN [run EXCEPT !.pc = "synth1", !.i = i, !.diagram = Undefined,
                     !.inflight = {Len(run.log) + 1},
                     !.log = Append(@, SynthesisCall(run.questions[i], Undefined)),
                     !.loops = Append(@, NoLoop)]
    ELSE [run EXCEPT !.pc = "synth1", !.i = i, !.diagram = Undefined,
                     !.inflight = {Len(run.log) + 1, Len(run.log) + 2},
                     !.log = @ \o <<SynthesisCall(run.questions[i], Undefined),
                                    SynthesisCall(run.questions[i + 1], Undefined)>>,
                     !.loops = Append(@, NoLoop)]

\* the top of `for (const q of questions)` for question i: the first synthesis is
\* requested, or the questions are returned
NextQuestion(run, i) ==
    IF i > Len(run.questions)
    THEN [run EXCEPT !.pc = "resolved", !.i = i, !.inflight = {},
                     !.out = Resolved(ArrayJson(run.done), run.log)]
    ELSE [run EXCEPT !.pc = "synth1", !.i = i, !.diagram = Undefined,
                     !.inflight = {Len(run.log) + 1},
                     !.log = Append(@, SynthesisCall(run.questions[i], Undefined)),
                     !.loops = Append(@, NoLoop)]

\* generatePractice up to `await ai.models.generateContent` of the skeleton
SeqGeneratePractice ==
    /\ svc = Idle
    /\ svc' = [fn |-> "generatePractice.await", pc |-> "skeleton", i |-> 0,
               questions |-> <<>>, done |-> <<>>, diagram |-> Undefined,
               inflight |-> {1},
               log |-> <<Call("text", FlashText, "practice", Undefined, Undefined, Undefined)>>,
               skeleton |-> NotAsked, loops |-> <<>>, out |-> Pending]
    /\ UNCHANGED appVars

\* the skeleton call settles: JSON.parse(response.text || '[]'), then the loop is entered
SeqSkeletonSettled ==
    /\ svc.fn = "generatePractice.await" /\ svc.pc = "skeleton"
    /\ \E resp \in SkeletonResponses :
          LET parsed == JsonParse(resp.text, ArrayJson(<<>>))
              run == [svc EXCEPT !.skeleton = resp, !.inflight = {}]
          IN  svc' = IF resp.kind = "throw"
                     THEN [run EXCEPT !.pc = "rejected", !.out = Rejected(resp.message, run.log)]
                     ELSE IF parsed.threw
                     THEN [run EXCEPT !.pc = "rejected", !.out = Rejected(SyntaxError, run.log)]
                     ELSE IF parsed.value.kind # "array"
                     THEN [run EXCEPT !.pc = "rejected", !.out = Rejected(TypeError, run.log)]
                     ELSE NextQuestion([run EXCEPT !.questions = parsed.value.items], 1)
    /\ UNCHANGED appVars

\* `let diagram = await generateReconstructedDiagram(q.question)` settles
SeqSynthesisSettled ==
    /\ svc.fn = "generatePractice.await" /\ svc.pc = "synth1"
    /\ \E resp \in { l.synth1 : l \in LoopOracles } :
          LET q == svc.questions[svc.i]
              first == GenerateReconstructedDiagram(q.question, Undefined, Undefined, resp)
              run == [svc EXCEPT !.loops[svc.i].synth1 = resp, !.inflight = {},
                                 !.diagram = first.value]
          IN  svc' = IF first.threw
                     THEN [run EXCEPT !.pc = "rejected", !.out = Rejected(TypeError, run.log)]
                     ELSE IF Falsy(first.value) THEN NextQuestion(Stored(run), svc.i + 1)
                     ELSE [run EXCEPT !.pc = "verify", !.inflight = {Len(run.log) + 1},
                                      !.log = Append(@, VerifierCall(q, first.value))]
    /\ UNCHANGED appVars

\* `const check = await verifyDiagramAccuracy(q.question, diagram)` settles
SeqVerificationSettled ==
    /\ svc.fn = "generatePractice.await" /\ svc.pc = "verify"
    /\ \E resp \in VerifierResponses :
          LET q == svc.questions[svc.i]
              check == VerifyDiagramAccuracy(q.question, svc.diagram, resp)
              run == [svc EXCEPT !.loops[svc.i].verify = resp, !.inflight = {}]
          IN  svc' = IF check.threw \/ IsNull(check.value)
                     THEN [run EXCEPT !.pc = "rejected", !.out = Rejected(TypeError, run.log)]
                     ELSE IF Truthy(check.value.isAccurate)
                     THEN NextQuestion(Stored(run), svc.i + 1)
                     ELSE [run EXCEPT !.pc = "synth2", !.inflight = {Len(run.log) + 1},
                                      !.log = Append(@, SynthesisCall(q, check.value.feedback))]
    /\ UNCHANGED appVars

\* `const correctedDiagram = await generateReconstructedDiagram(...)` settles
SeqCorrectionSettled ==
    /\ svc.fn = "generatePractice.await" /\ svc.pc = "synth2"
    /\ \E resp \in { l.synth2 : l \in LoopOracles } :
          LET q == svc.questions[svc.i]
              corrected == GenerateReconstructedDiagram(q.question, Undefined, Undefined, resp)
              run == [svc EXCEPT !.loops[svc.i].synth2 = resp, !.inflight = {},
                                 !.diagram = IF Truthy(corrected.value) THEN corrected.value ELSE @]
          IN  svc' = IF corrected.threw
                     THEN [run EXCEPT !.pc = "rejected", !.out = Rejected(TypeError, run.log)]
                     ELSE NextQuestion(Stored(run), svc.i + 1)
    /\ UNCHANGED appVars

NextSeq ==
    \/ SeqGeneratePractice
    \/ SeqSkeletonSettled
    \/ SeqSynthesisSettled
    \/ SeqVerificationSettled
    \/ SeqCorrectionSettled

SpecSeq == Init /\ [][NextSeq]_vars

-----------------------------------------------------------------------------
(* The favorites state and its copy in localStorage, from the mounting of  *)
(* App on: the first render, the two effects in the order of their         *)
(* declaration, the renders that state updates cause.  favorites is the    *)
(* state of the current render, queued the update a setFavorites has       *)
(* scheduled, effects the effects of the last commit still to run, prior   *)
(* the store as the mount found it.                                        *)

\* JSON.stringify(favorites)
Stringify(favs) == Json(ArrayJson(favs))
\* what localStorage may hold under 'smartstudy_favorites' when App mounts: nothing,
\* text that is not JSON, or an array written by an earlier session
StoredTexts == { NoText, Garbage } \cup { Stringify(favs) : favs \in FavoriteLists(MaxFavorites) }
NoUpdate == [kind |-> "none", items |-> <<>>]

\* useState<FavoriteItem[]>([]) and the first commit
FavMount ==
    /\ svc = Idle
    /\ \E stored \in StoredTexts :
          svc' = [fn |-> "App.favorites", store |-> stored, prior |-> stored,
                  favorites |-> <<>>, queued |-> NoUpdate,
                  effects |-> <<"load", "persist">>, toggled |-> FALSE]
    /\ UNCHANGED appVars

\* the mount effect: getItem, and setFavorites(JSON.parse(savedFavorites)) inside a try
FavLoadEffect ==
    /\ svc.fn = "App.favorites" /\ svc.effects # <<>> /\ Head(svc.effects) = "load"
    /\ LET parsed == JsonParse(svc.store, ArrayJson(<<>>))
       IN  svc' = IF svc.store.syntax = "empty" \/ parsed.threw
                  THEN [svc EXCEPT !.effects = Tail(@)]
                  ELSE [svc EXCEPT !.effects = Tail(@), !.queued = parsed.value]
    /\ UNCHANGED appVars

\* useEffect(() => { localStorage.setItem(..., JSON.stringify(favorites)) }, [favorites])
FavPersistEffect ==
    /\ svc.fn = "App.favorites" /\ svc.effects # <<>> /\ Head(svc.effects) = "persist"
    /\ svc' = [svc EXCEPT !.effects = Tail(@), !.store = Stringify(svc.favorites)]
    /\ UNCHANGED appVars

\* a slip: the persist effect is not run again after a render
FavRenderSkipsEffect ==
    /\ svc.fn = "App.favorites" /\ svc.effects = <<>> /\ svc.queued.kind = "array"
    /\ svc' = [svc EXCEPT !.favorites = svc.queued.items, !.queued = NoUpdate]
    /\ UNCHANGED appVars

\* the render a setFavorites causes: the new array is a new dependency value, so the
\* persist effect is scheduled
FavRender ==
    /\ svc.fn = "App.favorites" /\ svc.effects = <<>> /\ svc.queued.kind = "array"
    /\ svc' = [svc EXCEPT !.favorites = svc.queued.items, !.queued = NoUpdate,
                          !.effects = <<"persist">>]
    /\ UNCHANGED appVars

\* toggleFavorite from a click, once the last commit's effects have run
FavToggleFavorite ==
    /\ svc.fn = "App.favorites" /\ svc.effects = <<>> /\ svc.queued.kind = "none"
    /\ \E t \in FavoriteTexts :
          svc' = [svc EXCEPT !.queued = ArrayJson(Toggled(svc.favorites,
                                                         [Question(1) EXCEPT !.question = t],
                                                         ProblemObject("p1"))),
                            !.toggled = TRUE]
    /\ UNCHANGED appVars

NextFav ==
    \/ FavMount
    \/ FavLoadEffect
    \/ FavPersistEffect
    \/ FavRender
    \/ FavToggleFavorite

SpecFav == Init /\ [][NextFav]_vars

-----------------------------------------------------------------------------
(* Properties of the service functions, over SpecSvc.                      *)

\* the indices of the log's synthesizer calls made for a question
ImageCalls(log, about) == { k \in DOMAIN log : log[k].api = "image" /\ log[k].about = about }
\* the indices of the log's verifier calls made for a question
VerifierCalls(log, about) == { k \in DOMAIN log : log[k].api = "text" /\ log[k].about = about }
\* the questions of the skeleton a generatePractice call was answered with
Asked == IF svc.fn = "generatePractice" THEN 1..BatchSize(svc.oracle.skeleton) ELSE {}
\* the loop of question i ran: its first synthesis was requested
Ran(i) == ImageCalls(svc.out.log, QuestionText[i]) # {}
\* the corrective synthesis of question i was requested
Corrected(i) ==
    \E k \in ImageCalls(svc.out.log, QuestionText[i]) : svc.out.log[k].feedback # Undefined
FirstImage(i) == ImageOf(svc.oracle.loops[i].synth1)
SecondImage(i) == ImageOf(svc.oracle.loops[i].synth2)

\* C1: whatever the verifier and the synthesizer answer, generatePractice asks the
\* synthesizer at most twice for one question.
C1_AtMostTwoSyntheses ==
    \A i \in Asked : Cardinality(ImageCalls(svc.out.log, QuestionText[i])) <= 2
\* every question's verdict is inaccurate and every question is synthesized twice
C1_Witness ==
    /\ Asked = 1..MaxBatch
    /\ svc.out.ok
    /\ \A i \in Asked : /\ svc.oracle.loops[i].verify = Text(Json(Verdict("false", "labels misplaced")))
                        /\ Falsy(SecondImage(i))
                        /\ Cardinality(ImageCalls(svc.out.log, QuestionText[i])) = 2

\* C2: when a corrective synthesis was made, the question's diagram is the corrective
\* image if there is one and the first image otherwise.
C2_CorrectionKeepsFirst ==
    \A i \in Asked :
        svc.out.ok /\ Corrected(i) =>
            svc.out.value.items[i].diagram =
                IF Truthy(SecondImage(i)) THEN DataUrl(SecondImage(i)) ELSE DataUrl(FirstImage(i))
\* one question whose correction yields nothing and one whose correction yields an image
C2_Witness ==
    /\ svc.fn = "generatePractice" /\ svc.out.ok
    /\ \E i, j \in Asked :
          /\ Corrected(i) /\ Falsy(SecondImage(i))
          /\ svc.out.value.items[i].diagram = DataUrl("imgA")
          /\ Corrected(j) /\ Truthy(SecondImage(j))
          /\ svc.out.value.items[j].diagram = DataUrl("imgB")

\* C3: when the first synthesis of a question yields nothing, the question gets no
\* diagram, the verifier is not asked about it and no second synthesis is made.
C3_NothingToVerify ==
    \A i \in Asked :
        Ran(i) /\ Falsy(FirstImage(i)) =>
            /\ VerifierCalls(svc.out.log, QuestionText[i]) = {}
            /\ Cardinality(ImageCalls(svc.out.log, QuestionText[i])) = 1
            /\ ~Corrected(i)
            /\ svc.out.ok => svc.out.value.items[i].diagram = Undefined
\* no first synthesis yields an image, although verifier and corrective synthesis would answer
C3_Witness ==
    /\ Asked = 1..MaxBatch /\ svc.out.ok
    /\ \A i \in Asked : /\ Ran(i) /\ Falsy(FirstImage(i))
                        /\ svc.oracle.loops[i].verify = Text(Json(Verdict("false", "labels misplaced")))
                        /\ Truthy(SecondImage(i))
                        /\ svc.out.value.items[i].diagram = Undefined

\* C4: when the verifier's provider call throws, verifyDiagramAccuracy resolves to
\* {isAccurate: true, feedback: ""}; it never rejects, and generatePractice is not
\* rejected because verifier calls threw.
C4_VerifierFailsOpen ==
    /\ svc.fn = "verifyDiagramAccuracy" =>
          /\ ~svc.out.threw
          /\ svc.oracle.kind = "throw" => svc.out.value = Verdict("true", "")
    /\ svc.fn = "generatePractice" /\ Asked # {}
       /\ (\A i \in Asked : svc.oracle.loops[i].verify.kind = "throw") => svc.out.ok
\* the verifier's call threw
C4_Witness ==
    /\ svc.fn = "verifyDiagramAccuracy"
    /\ svc.oracle.kind = "throw"
    /\ svc.out.value.isAccurate = "true"

\* C5: the synthesizer asks the high tier first; when that call throws or answers
\* without an image it makes exactly one call on the lower tier; it never asks the
\* lower tier when the high tier answered with an image, and resolves to nothing
\* when both fail.
C5_TieredSynthesis ==
    svc.fn \in {"generateDiagram", "generateReconstructedDiagram"} =>
        /\ svc.out.log[1].model = ProImage
        /\ IF Truthy(ImageOf(svc.oracle.pro))
           THEN Len(svc.out.log) = 1 /\ svc.out.value = DataUrl(ImageOf(svc.oracle.pro))
           ELSE Len(svc.out.log) = 2 /\ svc.out.log[2].model = FlashImage

\* C7: when the high tier's error message contains "Requested entity was not found"
\* or "404", compareSteps rejects with PRO_MODEL_NOT_FOUND and does not ask the lower tier.
C7_CapabilityUnavailable ==
    svc.fn = "compareSteps" /\ svc.oracle.pro.kind = "throw"
    /\ (\E w \in {"Requested entity was not found", "404"} : Includes(svc.oracle.pro.message, w))
    => /\ ~svc.out.ok
       /\ svc.out.error = <<"PRO_MODEL_NOT_FOUND">>
       /\ \A k \in DOMAIN svc.out.log : svc.out.log[k].model # FlashText
\* the high tier answered 404 although the lower tier would have answered
C7_Witness ==
    /\ svc.fn = "compareSteps"
    /\ svc.oracle.pro = Throw(<<"models/gemini-3-pro-preview", "404">>)
    /\ svc.oracle.flash = Text(Plain("analysis"))
    /\ ~svc.out.ok

\* C10: every reference URI shown as a link for a comparison starts with https://
C10_SecureReferences ==
    svc.fn = "compareStepsGrounded" /\ svc.out.ok =>
        \A uri \in GroundingLinks(svc.out.value) \cup TextbookLinks(svc.out.value) :
            StartsWith(uri, Https)

-----------------------------------------------------------------------------
(* Properties of the stage machine, over Spec.                             *)

\* this step is the settling of a call of the handler
Settles(handler) == last'.seq # last.seq /\ last'.handler = handler
\* no synthesis of the settled call yielded an image
NoDiagramDrawn(call) ==
    IF call.handler = "handleCapture" THEN Falsy(ImageOf(call.oracle.synth))
    ELSE \A i \in DOMAIN call.oracle.loops : Falsy(ImageOf(call.oracle.loops[i].synth1))
\* the text call of the settled call answered with a usable record
Recognized(call) == call.oracle.recognition = Text(Json(ProblemObject("p1")))
Skeleton(call) == call.oracle.skeleton = Text(Json(ArrayJson(Batch(MaxBatch))))

\* C6: when every diagram synthesis fails, analyzeImage and generatePractice still
\* resolve to their records without diagrams; handleCapture goes to USER_INPUT,
\* startPractice goes to PRACTICE, and neither sets an error message.
C6_SynthesisBestEffort ==
    [][ /\ Settles("handleCapture") /\ Recognized(last') /\ NoDiagramDrawn(last')
           => /\ last'.out.ok
              /\ last'.out.value.diagram = Undefined
              /\ problem' = last'.out.value
              /\ stage' = "USER_INPUT"
              /\ errorMsg' = NoError
        /\ Settles("startPractice") /\ Skeleton(last') /\ NoDiagramDrawn(last')
           => /\ last'.out.ok
              /\ \A i \in 1..MaxBatch : last'.out.value.items[i].diagram = Undefined
              /\ practice' = last'.out.value.items
              /\ stage' = "PRACTICE"
              /\ errorMsg' = errorMsg ]_vars
\* a session without any diagram has reached PRACTICE with a full batch
C6_Witness ==
    /\ last.handler = "startPractice" /\ Skeleton(last) /\ NoDiagramDrawn(last)
    /\ last.oracle.loops[1].synth1.kind = "throw"
    /\ stage = "PRACTICE"
    /\ Len(practice) = MaxBatch
    /\ ~IsNull(problem) /\ problem.diagram = Undefined
    /\ errorMsg = NoError

\* C8: when compareSteps rejects with PRO_MODEL_NOT_FOUND, handleComparison shows
\* a message other than the one it shows for a generic comparison failure.
C8_CapabilityUnavailableSurfaced ==
    [][ Settles("handleComparison") /\ last'.out.error = ProModelNotFound
        => errorMsg' \notin {NoError, ComparisonFailed} ]_vars

\* C9: when both tiers of compareSteps fail, the call is rejected, the handler
\* shows the failure, and the stored comparison and the stage stay as they were.
C9_NoPlaceholderComparison ==
    [][ Settles("handleComparison")
        /\ last'.oracle.pro.kind = "throw" /\ last'.oracle.flash.kind = "throw"
        => /\ ~last'.out.ok
           /\ IsNull(last'.out.value)
           /\ comparison' = comparison
           /\ stage' = stage
           /\ errorMsg' = ComparisonFailed ]_vars
\* both tiers failed for a session that has no comparison yet
C9_Witness ==
    /\ last.handler = "handleComparison"
    /\ last.oracle.pro = Throw(<<"quota", "exceeded">>)
    /\ last.oracle.flash.kind = "throw"
    /\ Len(last.out.log) = 2
    /\ IsNull(comparison)
    /\ stage = "USER_INPUT"
    /\ errorMsg = ComparisonFailed

-----------------------------------------------------------------------------
(* Properties of the favorites.                                            *)

\* the positions of the favorites with the question text
Holding(favs, text) == { k \in DOMAIN favs : favs[k].question = text }

\* C11: starting without favorites, whatever is toggled from PRACTICE or FAVORITES,
\* no two favorites have the same question text.
C11_UniqueFavorites ==
    \A i, j \in DOMAIN favorites : i # j => favorites[i].question # favorites[j].question
\* every question of the batch is a favorite, and the favorites are shown
C11_Witness ==
    /\ stage = "FAVORITES"
    /\ Len(favorites) = MaxBatch
    /\ \A k \in DOMAIN practice : IsFavorited(favorites, practice[k].question)

\* C12: toggling a question flips whether its text is favorited, removing every
\* favorite with the text when there is one; toggling it twice in succession
\* leaves that as it was.
C12_ToggleInvolution ==
    svc.fn = "toggleFavorite" =>
        LET text == svc.q.question
        IN  /\ IsFavorited(svc.once, text) = ~IsFavorited(svc.favorites, text)
            /\ IsFavorited(svc.twice, text) = IsFavorited(svc.favorites, text)
            /\ IsFavorited(svc.favorites, text) => Holding(svc.once, text) = {}
            /\ \A t \in FavoriteTexts \ {text} :
                  /\ Cardinality(Holding(svc.once, t)) = Cardinality(Holding(svc.favorites, t))
                  /\ Cardinality(Holding(svc.twice, t)) = Cardinality(Holding(svc.favorites, t))
\* a text held twice is toggled: it is removed altogether, then held once
C12_Witness ==
    /\ svc.fn = "toggleFavorite"
    /\ Cardinality(Holding(svc.favorites, svc.q.question)) = 2
    /\ Holding(svc.once, svc.q.question) = {}
    /\ Cardinality(Holding(svc.twice, svc.q.question)) = 1

-----------------------------------------------------------------------------
(* Properties of reset and of the stages' records.                         *)

\* C13: reset, from any stage, sets the stage to START, clears problem, comparison,
\* practice batch, learner input and error message, and leaves the favorites as they are.
C13_ResetClearsSession ==
    [][ Reset => /\ stage' = "START"
                 /\ IsNull(problem') /\ IsNull(comparison')
                 /\ practice' = <<>>
                 /\ userSteps' = ""
                 /\ errorMsg' = NoError
                 /\ favorites' = favorites ]_vars
\* a session that reached PRACTICE and favorited a question has been reset
C13_Witness ==
    /\ stage = "START"
    /\ IsNull(problem) /\ IsNull(comparison) /\ practice = <<>> /\ userSteps = ""
    /\ last.handler = "startPractice"
    /\ Len(favorites) > 0

\* C14: the settling of a call that was in flight when reset ran changes neither
\* stage nor problem, comparison or practice.
C14_ResetInvalidatesCalls ==
    [][ last'.seq # last.seq /\ last'.stale
        => UNCHANGED <<stage, problem, comparison, practice>> ]_vars

\* C15: in USER_INPUT the problem is present; in COMPARISON problem and comparison
\* are present; in PRACTICE problem, comparison and a non-empty batch are present.
C15_StageHasItsRecords ==
    /\ stage = "USER_INPUT" => ~IsNull(problem)
    /\ stage = "COMPARISON" => ~IsNull(problem) /\ ~IsNull(comparison)
    /\ stage = "PRACTICE" => ~IsNull(problem) /\ ~IsNull(comparison) /\ Len(practice) > 0

-----------------------------------------------------------------------------
(* Properties of the stage transitions.                                    *)

\* C16: the stage goes from COMPARISON to PRACTICE only by a generatePractice call
\* that succeeded, now or (handleForward) earlier with a batch still stored;
\* handleForward does nothing in COMPARISON without a batch; a failed startPractice
\* leaves stage and batch as they are and sets an error message.
C16_PracticeNeedsGeneration ==
    [][ /\ stage = "COMPARISON" /\ stage' = "PRACTICE"
           => \/ (Settles("startPractice") /\ last'.out.ok)
              \/ (HandleForward /\ Len(practice) > 0)
        /\ practice' # practice /\ practice' # <<>> => Settles("startPractice") /\ last'.out.ok
        /\ stage = "COMPARISON" /\ practice = <<>> => ~canGoForward /\ ForwardTarget = "COMPARISON"
        /\ Settles("startPractice") /\ ~last'.out.ok
           => stage' = stage /\ practice' = practice /\ errorMsg' = PracticeFailed ]_vars
\* a generation failed and the session is still in COMPARISON without a batch
C16_Witness ==
    /\ last.handler = "startPractice" /\ ~last.out.ok
    /\ stage = "COMPARISON"
    /\ practice = <<>>
    /\ errorMsg = PracticeFailed
    /\ ~loading

\* C17: when analyzeImage is rejected, handleCapture sets the stage to START and
\* an error message, and leaves the problem as it was.
C17_CaptureFailure ==
    [][ Settles("handleCapture") /\ ~last'.out.ok
        => stage' = "START" /\ errorMsg' = CaptureFailed /\ problem' = problem ]_vars
\* a second capture failed: the problem of the first is still stored
C17_Witness ==
    /\ last.handler = "handleCapture" /\ ~last.out.ok
    /\ stage = "START"
    /\ errorMsg = CaptureFailed
    /\ ~IsNull(problem)

\* C18: when compareSteps is rejected, handleComparison sets an error message and
\* leaves stage, learner input, problem and stored comparison as they were.
C18_ComparisonFailure ==
    [][ Settles("handleComparison") /\ ~last'.out.ok
        => /\ errorMsg' = ComparisonFailed
           /\ UNCHANGED <<stage, userSteps, problem, comparison>> ]_vars
\* the comparison was refused for a session that holds an earlier comparison
C18_Witness ==
    /\ last.handler = "handleComparison" /\ last.out.error = ProModelNotFound
    /\ stage = "USER_INPUT"
    /\ userSteps = "radius ratio 1:2:1"
    /\ errorMsg = ComparisonFailed
    /\ ~IsNull(problem) /\ ~IsNull(comparison)

C20_ForwardNeedsRecord ==
    [][ /\ HandleForward
           => /\ \/ (stage = "START" /\ stage' = "USER_INPUT" /\ ~IsNull(problem))
                 \/ (stage = "USER_INPUT" /\ stage' = "COMPARISON" /\ ~IsNull(comparison))
                 \/ (stage = "COMPARISON" /\ stage' = "PRACTICE" /\ Len(practice) > 0)
              /\ UNCHANGED <<problem, comparison, practice, userSteps, favorites, loading,
                             errorMsg, inflight, started>>
        /\ canGoForward <=> ForwardTarget # stage ]_vars
\* the last capture failed and led to START; the session is in USER_INPUT again, without
\* a comparison to come back from
C20_Witness ==
    /\ last.handler = "handleCapture" /\ ~last.out.ok
    /\ stage = "USER_INPUT"
    /\ ~IsNull(problem) /\ IsNull(comparison)
    /\ inflight = {}

-----------------------------------------------------------------------------
(* Properties of the practice batch, the recognition call and the rendering *)
(* of records.                                                              *)

\* the number of questions the skeleton prompt asks the provider for
RequestedBatch == 3

\* C21: every batch a successful generatePractice returns holds exactly RequestedBatch
\* questions, in the order of the skeleton response.
C21_BatchOfThree ==
    svc.fn = "generatePractice" /\ svc.out.ok =>
        /\ Len(svc.out.value.items) = RequestedBatch
        /\ \A i \in DOMAIN svc.out.value.items :
              svc.out.value.items[i].question = svc.oracle.skeleton.text.value.items[i].question

\* C22: when the recognition response has no text, has text that is not JSON, or
\* parses to something other than a record with its required fields, analyzeImage
\* rejects and returns no record.
C22_RecognitionParseError ==
    svc.fn = "analyzeImage" /\ svc.oracle.recognition.kind = "ok"
        /\ svc.oracle.recognition.text \notin { Json(ProblemObject(t)) : t \in ProblemTexts }
        => ~svc.out.ok

\* a grid with at least one cell that is not null
HasCell(grid) == \E r \in DOMAIN grid.rows : \E c \in DOMAIN grid.rows[r] : grid.rows[r][c] # "null"

\* C23: a record whose gridData has a cell that is not null is rendered as the
\* matrix, not as the diagram image, with or without a diagram.
C23_MatrixPreferred ==
    svc.fn = "render" /\ HasCell(svc.record.gridData) => svc.figure = "matrix"

-----------------------------------------------------------------------------
(* Properties of the correction loop and of compareSteps, over SpecSvc.    *)

\* C24: generatePractice asks the verifier at most once for a question, and only
\* about the first image; an image from the corrective synthesis becomes the
\* question's diagram without a verifier call about it.
C24_VerifiedOnce ==
    \A i \in Asked :
        /\ Cardinality(VerifierCalls(svc.out.log, QuestionText[i])) <= 1
        /\ \A k \in VerifierCalls(svc.out.log, QuestionText[i]) :
              svc.out.log[k].image = FirstImage(i)
        /\ svc.out.ok /\ Corrected(i) /\ Truthy(SecondImage(i)) =>
              svc.out.value.items[i].diagram = DataUrl(SecondImage(i))
\* every question of a full batch is corrected with a new image after one verifier call
C24_Witness ==
    /\ Asked = 1..MaxBatch /\ svc.out.ok
    /\ \A i \in Asked :
          /\ Corrected(i) /\ SecondImage(i) = "imgB" /\ FirstImage(i) = "imgA"
          /\ svc.out.value.items[i].diagram = DataUrl("imgB")
          /\ Cardinality(VerifierCalls(svc.out.log, QuestionText[i])) = 1

\* the verdict the verifier's response to question i parses to
VerdictOf(i) == svc.oracle.loops[i].verify.text.value
\* the verifier answered question i with a JSON object whose isAccurate is `flag`
Judged(i, flag) ==
    /\ Ran(i) /\ Truthy(FirstImage(i))
    /\ svc.oracle.loops[i].verify.kind = "ok"
    /\ svc.oracle.loops[i].verify.text.syntax = "json"
    /\ VerdictOf(i).kind = "object"
    /\ VerdictOf(i).isAccurate = flag

\* C25: after an accurate verdict the question keeps the first image and no second
\* synthesis is made; after an inaccurate verdict exactly one more synthesis is made,
\* with the verdict's feedback text as its correction input.
C25_VerdictDecides ==
    \A i \in Asked :
        /\ Judged(i, "true") =>
              /\ Cardinality(ImageCalls(svc.out.log, QuestionText[i])) = 1
              /\ ~Corrected(i)
              /\ svc.out.ok => svc.out.value.items[i].diagram = DataUrl(FirstImage(i))
        /\ Judged(i, "false") =>
              /\ Cardinality(ImageCalls(svc.out.log, QuestionText[i])) = 2
              /\ \E k \in ImageCalls(svc.out.log, QuestionText[i]) :
                    /\ svc.out.log[k].feedback = VerdictOf(i).feedback
                    /\ \A j \in ImageCalls(svc.out.log, QuestionText[i]) \ {k} :
                          j < k /\ svc.out.log[j].feedback = Undefined
\* one question judged accurate and one judged inaccurate in the same batch
C25_Witness ==
    /\ svc.fn = "generatePractice" /\ svc.out.ok
    /\ \E i, j \in Asked :
          /\ Judged(i, "true") /\ svc.out.value.items[i].diagram = DataUrl("imgA")
          /\ Judged(j, "false") /\ Corrected(j)
          /\ Cardinality(ImageCalls(svc.out.log, QuestionText[j])) = 2

\* the verifier answered question i with text that is empty, is not JSON, or parses
\* to something without a boolean isAccurate
Malformed(i) ==
    /\ Ran(i) /\ Truthy(FirstImage(i))
    /\ svc.oracle.loops[i].verify.kind = "ok"
    /\ \/ svc.oracle.loops[i].verify.text.syntax \in {"empty", "garbage"}
       \/ /\ svc.oracle.loops[i].verify.text.syntax = "json"
          /\ (VerdictOf(i).kind # "object" \/ VerdictOf(i).isAccurate \notin {"true", "false"})

\* C26: a malformed verifier response counts as an accurate verdict: no corrective
\* synthesis is made for the question.
C26_MalformedIsAccurate ==
    \A i \in Asked : Malformed(i) => ~Corrected(i)

\* the high tier of compareSteps failed with a message that lacks the signature of
\* an unavailable capability
OtherFailure ==
    /\ svc.fn = "compareSteps" /\ svc.oracle.pro.kind = "throw"
    /\ \A w \in {"Requested entity was not found", "404"} : ~Includes(svc.oracle.pro.message, w)

\* C27: compareSteps makes at most two provider calls; after a high-tier failure
\* without the signature it makes exactly one call to the lower tier, and when that
\* call answers it resolves to a comparison with an analysis text, no discrepancies
\* and the problem's knowledge points as weak points.
C27_SingleFallback ==
    svc.fn = "compareSteps" =>
        /\ Len(svc.out.log) <= 2
        /\ OtherFailure =>
              /\ Len(svc.out.log) = 2
              /\ svc.out.log[1].model = ProText /\ svc.out.log[2].model = FlashText
              /\ svc.oracle.flash.kind = "ok" =>
                    /\ svc.out.ok
                    /\ svc.out.value.kind = "object"
                    /\ Truthy(svc.out.value.userStepsAnalysis)
                    /\ svc.out.value.discrepancies = <<>>
                    /\ svc.out.value.weakPoints = ProblemObject("p1").keyKnowledgePoints
\* the high tier is out of quota and the lower tier answers without text
C27_Witness ==
    /\ OtherFailure
    /\ svc.oracle.flash = Text(NoText)
    /\ svc.out.ok /\ Len(svc.out.log) = 2
    /\ svc.out.value.userStepsAnalysis = "abnormal"

\* C28: handleComparison called with no problem, or with input that is empty or only
\* whitespace, starts no compareSteps call and leaves stage, comparison, error
\* message and loading flag as they were.
C28_EmptyInputIgnored ==
    svc.fn = "handleComparison"
        /\ (IsNull(svc.session.problem) \/ svc.session.userSteps \in {"", " "})
        => /\ svc.after.calls = <<>>
           /\ svc.after.session = svc.session
\* a problem, a blank as input, no call under way: nothing is started
C28_Witness ==
    /\ svc.fn = "handleComparison"
    /\ ~IsNull(svc.session.problem) /\ svc.session.userSteps = " " /\ ~svc.session.loading
    /\ svc.session.stage = "USER_INPUT"
    /\ svc.after.calls = <<>> /\ ~svc.after.session.loading

\* C29: whatever happens in the loops of a batch, generatePractice returns every
\* question of the skeleton; question i's diagram is the one its own loop's responses
\* give, and its other fields are the skeleton's.
C29_SiblingsUntouched ==
    \A i \in Asked :
        /\ svc.out.ok
        /\ svc.out.value.items[i].diagram = CorrectionLoop(Question(i), svc.oracle.loops[i]).diagram
        /\ [svc.out.value.items[i] EXCEPT !.diagram = Undefined]
              = svc.oracle.skeleton.text.value.items[i]

-----------------------------------------------------------------------------
(* Properties of the order of generatePractice's provider calls, over SpecSeq. *)

\* the position in the batch of the question a call is about, 0 for the skeleton call
LoopOf(call) ==
    IF call.about = "practice" THEN 0
    ELSE CHOOSE i \in DOMAIN QuestionText : QuestionText[i] = call.about

\* C30: generatePractice has at most one provider call in flight, and it is the last
\* one requested; the skeleton call is the first call and is answered before any
\* other call is requested; a call for a question is requested only when every
\* earlier question has its diagram assigned; and the settled result with its calls
\* is the one GeneratePractice computes from the same responses.
C30_OneAtATime ==
    svc.fn = "generatePractice.await" =>
        /\ Cardinality(svc.inflight) <= 1
        /\ svc.inflight \subseteq {Len(svc.log)}
        /\ \A k \in DOMAIN svc.log : LoopOf(svc.log[k]) = 0 <=> k = 1
        /\ Len(svc.log) > 1 => 1 \notin svc.inflight
        /\ \A k \in DOMAIN svc.log :
              /\ LoopOf(svc.log[k]) <= Len(svc.done) + 1
              /\ \A j \in 1..k : LoopOf(svc.log[j]) <= LoopOf(svc.log[k])
        /\ svc.pc \in {"resolved", "rejected"} =>
              /\ svc.inflight = {}
              /\ svc.out = GeneratePractice(Weak, ProblemObject("p1"),
                                            PracticeOracle(svc.skeleton, svc.loops))
\* the corrective synthesis of the last question is in flight, the earlier questions done
C30_Witness ==
    /\ svc.fn = "generatePractice.await" /\ svc.pc = "synth2"
    /\ Len(svc.questions) = MaxBatch /\ svc.i = MaxBatch
    /\ Len(svc.done) = MaxBatch - 1
    /\ svc.inflight = {Len(svc.log)}
    /\ LoopOf(svc.log[Len(svc.log)]) = MaxBatch

-----------------------------------------------------------------------------
(* Properties of the problem's diagram, of the records' difficulty and of   *)
(* the handlers' calls.                                                    *)

\* C31: when analyzeImage returns a problem whose first synthesis yielded an image,
\* the verifier was asked about that image before the problem was returned.
C31_ProblemDiagramVerified ==
    svc.fn = "analyzeImage" /\ svc.out.ok /\ Truthy(ImageOf(svc.oracle.synth)) =>
        \E k \in DOMAIN svc.out.log :
            /\ svc.out.log[k].api = "text"
            /\ svc.out.log[k].image = ImageOf(svc.oracle.synth)

\* C32: every question of a batch generatePractice returns has a difficulty that is
\* one of the three levels.
C32_DifficultyLevels ==
    svc.fn = "generatePractice" /\ svc.out.ok =>
        \A i \in DOMAIN svc.out.value.items : svc.out.value.items[i].difficulty \in Levels

\* C33: at most one pipeline call is in flight, and handleCapture, handleComparison
\* and startPractice start no call while loading is true.
C33_OneCallInFlight ==
    /\ Cardinality(inflight) <= 1
    /\ loading <=> inflight # {}

\* C34: a toggleFavorite step leaves stage, problem, comparison, practice batch and
\* learner input as they were; it can be taken in PRACTICE with a batch and in
\* FAVORITES with a favorite; and a step that changes the favorites is a
\* toggleFavorite step.
C34_FavoritesFrame ==
    [][ /\ (\E q \in Togglable : ToggleFavorite(q))
           => UNCHANGED <<stage, problem, comparison, practice, userSteps>>
        /\ (stage = "PRACTICE" /\ practice # <<>>) \/ (stage = "FAVORITES" /\ favorites # <<>>)
           => ENABLED (\E q \in Togglable : ToggleFavorite(q))
        /\ favorites' # favorites
           => /\ stage \in {"PRACTICE", "FAVORITES"}
              /\ \E q \in Togglable : favorites' = Toggled(favorites, q, problem) ]_vars
\* on the favorites page with one favorite kept, the session's records all in place
C34_Witness ==
    /\ stage = "FAVORITES" /\ Len(favorites) = 1
    /\ Len(practice) = MaxBatch
    /\ ~IsNull(problem) /\ ~IsNull(comparison) /\ userSteps # ""

-----------------------------------------------------------------------------
(* Properties of the persisted favorites, over SpecFav.                    *)

\* no update is scheduled and no effect is left to run
FavSettled == svc.fn = "App.favorites" /\ svc.effects = <<>> /\ svc.queued.kind = "none"

\* C35: once a toggleFavorite has settled, the store holds the text of the favorites
\* in memory, and parsing it gives those favorites back.
C35_StoreFollowsFavorites ==
    FavSettled /\ svc.toggled =>
        /\ svc.store = Stringify(svc.favorites)
        /\ JsonParse(svc.store, ArrayJson(<<>>)) = [threw |-> FALSE, value |-> ArrayJson(svc.favorites)]
\* a session that found favorites in the store and has removed them all
C35_Witness ==
    /\ FavSettled /\ svc.toggled
    /\ svc.prior \notin {NoText, Garbage, Stringify(<<>>)}
    /\ svc.favorites = <<>>
    /\ svc.store = Stringify(<<>>)

\* C36: from the mount to the first toggle the store holds what the mount found in
\* it, and once the startup has settled the favorites in memory are the stored ones.
C36_StartupKeepsStore ==
    svc.fn = "App.favorites" /\ ~svc.toggled /\ svc.prior.syntax = "json" =>
        /\ svc.store = svc.prior
        /\ FavSettled => Stringify(svc.favorites) = svc.prior

-----------------------------------------------------------------------------
(* Properties of the session's records and of the handlers' ends, over Spec. *)

\* C37: whenever a problem and a comparison are both stored, the comparison is one
\* computed from that problem: its weak points are the problem's knowledge points.
C37_RecordsConsistent ==
    ~IsNull(problem) /\ ~IsNull(comparison) =>
        comparison.weakPoints = problem.keyKnowledgePoints

\* C38: when a handler's call has settled, by success or by failure, no progress
\* interval the handler started is still running, and with no call left in flight
\* loading is false.
C38_TimersCleared ==
    /\ last.timer # "running"
    /\ last.handler # "none" /\ inflight = {} => ~loading

\* C39: when every analyzeImage call settles in the end, each time the stage is
\* ANALYZING it is USER_INPUT or START later; and with no call in flight the stage
\* is not ANALYZING and loading is false.
C39_AnalyzingTransient ==
    /\ (stage = "ANALYZING") ~> (stage \in {"USER_INPUT", "START"})
    /\ [](inflight = {} => stage # "ANALYZING" /\ ~loading)
\* both outcomes of a capture have been seen: a problem is stored, and a later capture
\* has failed and led back to START with nothing in flight
C39_Witness ==
    /\ last.handler = "handleCapture" /\ ~last.out.ok /\ last.seq >= 2
    /\ stage = "START" /\ ~loading /\ inflight = {}
    /\ ~IsNull(problem) /\ problem.originalText = "p2"

-----------------------------------------------------------------------------
(* Property of compareSteps over two runs, over SpecSvc.                    *)

====
